---- MODULE Spec2Model ----
(***************************************************************************)
(* ipinfo_lookup.py: the retry/backoff request loop (get_ip_info), the      *)
(* input gathering and lookup loop of main, and the output writers          *)
(* (save_json, save_csv).                                                   *)
(*                                                                          *)
(* Values.  A JSON value (and the Python value json() turns it into) is a   *)
(* tagged record [t, v]: t = "str" with v the text, t = "obj" with v a      *)
(* function from keys to JSON values, t = "null", and t = "text" for a      *)
(* response body that is not JSON at all.  A Python dict is a "obj" value.  *)
(* A line of the input file is a sequence of tokens: whitespace characters  *)
(* and at most one word.                                                    *)
(*                                                                          *)
(* Steps.  The program is single-threaded; one action is the code between   *)
(* two blocking points (a file read, an HTTP request with the backoff sleep *)
(* that follows its failure, the write of the output file).  Progress and   *)
(* per-attempt prints (the quiet and verbose flags) change no state the     *)
(* rest of the program reads and are left out; the diagnostics are kept in  *)
(* console.                                                                 *)
(***************************************************************************)
EXTENDS Integers, Sequences, FiniteSets, TLC

\* ------------------------------------------------------------------ bounds
MaxLines   == 2     \* lines of the input file
MaxRetries == 3     \* largest retries argument tried in direct calls
MaxDelay   == 2     \* largest delay argument tried in direct calls

\* ---------------------------------------------------------------- constants
DefaultRetries == 3
DefaultDelay   == 2

\* -------------------------------------------------------------- JSON values
JStr(s) == [t |-> "str", v |-> s]
JObj(f) == [t |-> "obj", v |-> f]
JNull   == [t |-> "null", v |-> ""]
JText   == [t |-> "text", v |-> "<html>"]

\* str(x) of a Python value, as str(e) and the csv writer apply it
Str(x) ==
  IF x.t = "str" THEN x.v
  ELSE IF x.t = "null" THEN "None"
  ELSE "{...}"

\* ------------------------------------------------------- the HTTP endpoint
\* What one requests.get of the URL of ip can produce: an exception of the
\* transport, or a response with a status and a body.
OkCity(ip) == JObj([ip |-> JStr(ip), city |-> JStr("X")])
OkOrg(ip)  == JObj([ip |-> JStr(ip), org |-> JStr("Y")])
ErrObjMsg  == JObj([error |-> JObj([title |-> JStr("Rate"), message |-> JStr("Rate limit exceeded")])])
ErrObjNoMsg == JObj([error |-> JObj([title |-> JStr("Oops")])])
ErrString(ip) == JObj([ip |-> JStr(ip), error |-> JStr("quota")])
ErrNull    == JObj([error |-> JNull])

Bodies(ip) ==
  {OkCity(ip), OkOrg(ip), ErrObjMsg, ErrObjNoMsg, ErrString(ip), ErrNull, JNull, JText}

Outcomes(ip) ==
  {[k |-> "raise", msg |-> "timeout"], [k |-> "raise", msg |-> "connection refused"]}
  \cup {[k |-> "resp", status |-> 200, body |-> b] : b \in Bodies(ip)}
  \cup {[k |-> "resp", status |-> 300, body |-> b] : b \in {OkCity(ip), JText}}
  \cup {[k |-> "resp", status |-> 500, body |-> b] : b \in {ErrObjMsg, JText}}

\* The outcomes tried in whole runs of main, where each of up to MaxLines
\* lookups goes through up to three of them.
BatchOutcomes(ip) ==
  { [k |-> "raise", msg |-> "timeout"],
    [k |-> "resp", status |-> 200, body |-> OkCity(ip)],
    [k |-> "resp", status |-> 200, body |-> OkOrg(ip)],
    [k |-> "resp", status |-> 200, body |-> ErrObjMsg],
    [k |-> "resp", status |-> 500, body |-> JText] }

\* ------------------------------------------------------------- get_ip_info
\* resp.raise_for_status(): raises HTTPError for a 4xx or 5xx status only
RaisesForStatus(status) == status >= 400 /\ status < 600

HTTPErrorMsg(status) ==
  IF status < 500 THEN "Client Error" ELSE "Server Error"

\* variant: .get("message") without the default, str(None) for a missing one
ErrorFieldMsgNoDefault(ev) ==
  IF ev.t = "obj"
    THEN IF "message" \in DOMAIN ev.v THEN Str(ev.v["message"]) ELSE "None"
    ELSE "AttributeError: object has no attribute 'get'"

\* data["error"].get("message", "Unknown API error"), then str(Exception(..))
ErrorFieldMsg(ev) ==
  IF ev.t = "obj"
    THEN IF "message" \in DOMAIN ev.v THEN Str(ev.v["message"])
                                      ELSE "Unknown API error"
    ELSE "AttributeError: object has no attribute 'get'"

\* variant: the check looks for the key "errors"
HasErrorFieldPlural(data) == "errors" \in DOMAIN data.v

\* "error" in data, for the data json() returned
HasErrorField(data) == "error" \in DOMAIN data.v

\* The body of the try block for one outcome of the request: either the
\* function returns data, or an exception e is caught with str(e) = msg.
Try(o) ==
  IF o.k = "raise" THEN [ok |-> FALSE, msg |-> o.msg]
  ELSE IF RaisesForStatus(o.status) THEN [ok |-> FALSE, msg |-> HTTPErrorMsg(o.status)]
  ELSE IF o.body.t = "text" THEN [ok |-> FALSE, msg |-> "Expecting value"]
  ELSE IF o.body.t # "obj" THEN [ok |-> FALSE, msg |-> "TypeError: not iterable"]
  ELSE IF HasErrorField(o.body) THEN [ok |-> FALSE, msg |-> ErrorFieldMsg(o.body.v["error"])]
  ELSE [ok |-> TRUE, data |-> o.body]

\* variant: the error record without the ip
ErrorRecordNoIp(ip, msg) == JObj([error |-> JStr(msg)])

\* {"ip": ip, "error": msg}
ErrorRecord(ip, msg) == JObj([ip |-> JStr(ip), error |-> JStr(msg)])

\* variant: delay * (2 ** attempt)
BackoffShifted(d, a) == d * (2 ^ a)

\* delay * (2 ** (attempt - 1))
Backoff(d, a) == d * (2 ^ (a - 1))

\* variant: gives up one attempt early
LastAttemptEarly(a, r) == a >= r - 1

\* if attempt == retries
LastAttempt(a, r) == a = r

\* ------------------------------------------------------------------- state
VARIABLES
  pc,        \* position of the single thread of control
  args,      \* parsed command line: ip, file, output, format
  fileLines, \* the lines of the input file
  readPos,   \* lines of the input file consumed so far
  ips,       \* main: ips
  idx,       \* main: index of the IP being looked up (enumerate from 1)
  results,   \* main: results
  console,   \* diagnostics printed so far
  disk,      \* the output path: opened for writing or not, and its content
  exitCode,  \* -1 while running
  ip, retries, delay, attempt,   \* get_ip_info: arguments and loop variable
  ret,       \* value returned by the last get_ip_info call
  calls,     \* number of get_ip_info calls started
  requests,  \* every HTTP request made: [call, ip, attempt]
  hist,      \* outcomes of the requests of the current call
  sleeps     \* arguments of the time.sleep calls of the current call

lookupVars == <<ip, retries, delay, attempt, ret, calls, requests, hist, sleeps>>
mainVars   == <<args, fileLines, readPos, ips, idx, results, console, disk, exitCode>>
vars       == <<pc, args, fileLines, readPos, ips, idx, results, console, disk,
                exitCode, ip, retries, delay, attempt, ret, calls, requests,
                hist, sleeps>>

NoDict == JObj(<<>>)

\* Entry of get_ip_info(ipArg, retries = r, delay = d): the for loop starts
\* with attempt 1, or is empty and the function falls to its last line.
Enter(ipArg, r, d) ==
  /\ ip' = ipArg
  /\ retries' = r
  /\ delay' = d
  /\ calls' = calls + 1
  /\ hist' = <<>>
  /\ sleeps' = <<>>
  /\ UNCHANGED requests
  /\ IF r >= 1
       THEN /\ attempt' = 1
            /\ ret' = NoDict
            /\ pc' = "attempt"
       ELSE /\ attempt' = 0
            /\ ret' = ErrorRecord(ipArg, "Failed after retries")
            /\ pc' = "returned"

\* One iteration of the for loop: the request with outcome o, then return,
\* or the backoff sleep and the next iteration.
Attempt(o) ==
  /\ pc = "attempt"
  /\ o \in Outcomes(ip)
  /\ requests' = Append(requests, [call |-> calls, ip |-> ip, attempt |-> attempt])
  /\ hist' = Append(hist, o)
  /\ UNCHANGED <<ip, retries, delay, calls, mainVars>>
  /\ LET t == Try(o) IN
       IF t.ok
         THEN /\ ret' = t.data
              /\ pc' = "returned"
              /\ UNCHANGED <<attempt, sleeps>>
         ELSE IF LastAttempt(attempt, retries)
           THEN /\ ret' = ErrorRecord(ip, t.msg)
                /\ pc' = "returned"
                /\ UNCHANGED <<attempt, sleeps>>
           ELSE IF Backoff(delay, attempt) < 0
             THEN \* time.sleep raises ValueError inside the except clause
                  /\ pc' = "raised"
                  /\ UNCHANGED <<attempt, sleeps, ret>>
             ELSE /\ sleeps' = Append(sleeps, Backoff(delay, attempt))
                  /\ attempt' = attempt + 1
                  /\ UNCHANGED <<pc, ret>>

\* --------------------------------------------- direct calls of get_ip_info
NoArgs == [ip |-> "", file |-> "", output |-> "", format |-> "json"]
NoDisk == [opened |-> FALSE, json |-> <<>>, csv |-> <<>>]

ValidLiterals   == {"1.1.1.1", "2.2.2.2"}

InitLookup ==
  /\ pc = "call"
  /\ args = NoArgs /\ fileLines = <<>> /\ readPos = 0 /\ ips = <<>> /\ idx = 0
  /\ results = <<>> /\ console = <<>> /\ disk = NoDisk /\ exitCode = -1
  /\ ip \in ValidLiterals
  /\ retries \in 0..MaxRetries
  /\ delay \in (-1)..MaxDelay
  /\ attempt = 0 /\ ret = NoDict /\ calls = 0 /\ requests = <<>>
  /\ hist = <<>> /\ sleeps = <<>>

Call ==
  /\ pc = "call"
  /\ Enter(ip, retries, delay)
  /\ UNCHANGED mainVars

NextLookup ==
  \/ Call
  \/ \E o \in Outcomes(ip) : Attempt(o)

SpecLookup == InitLookup /\ [][NextLookup]_vars

\* ------------------------------------------- properties of get_ip_info
\* the attempt with outcome o ended in an exception (it failed)
Failed(o) == ~Try(o).ok

AllFailed == \A i \in 1..Len(hist) : Failed(hist[i])

\* a dict with exactly the two fields ip and error
ErrorShaped(r) == r.t = "obj" /\ DOMAIN r.v = {"ip", "error"}

\* C1: a call with retries >= 1 and delay >= 0 never propagates an
\* exception, makes at most retries attempts, and returns one dict; when
\* no attempt succeeded the dict is the error-shaped record, whatever the
\* outcomes of the attempts were.
C1_OneRecordNeverRaises ==
  (retries >= 1 /\ delay >= 0) =>
    /\ pc # "raised"
    /\ Len(hist) <= retries
    /\ pc = "attempt" => attempt = Len(hist) + 1 /\ attempt <= retries
    /\ pc = "returned" =>
         /\ ret.t = "obj"
         /\ AllFailed => /\ ErrorShaped(ret)
                         /\ ret.v["ip"] = JStr(ip)
                         /\ ret.v["error"].t = "str"

\* three failures of three different kinds end in the error-shaped record
C1_Witness ==
  /\ pc = "returned" /\ retries = 3 /\ delay = 2 /\ Len(hist) = 3
  /\ hist[1].k = "raise"
  /\ hist[2].k = "resp" /\ hist[2].status = 500
  /\ hist[3].k = "resp" /\ hist[3].status = 200 /\ hist[3].body = JText
  /\ ErrorShaped(ret)

\* C2: when every attempt fails, exactly retries requests are made and the
\* record returned is {ip, error} with error the description of the failure
\* of the last attempt.
C2_AllFailExactlyRetries ==
  (pc = "returned" /\ retries >= 1 /\ AllFailed) =>
    /\ Len(hist) = retries
    /\ Len(requests) = retries
    /\ \A i \in 1..retries : requests[i].attempt = i /\ requests[i].ip = ip
    /\ DOMAIN ret.v = {"ip", "error"}
    /\ ret.v["ip"] = JStr(ip)
    /\ ret.v["error"] = JStr(Try(hist[retries]).msg)

\* three failures with three different descriptions; the last one is kept
C2_Witness ==
  /\ pc = "returned" /\ retries = 3 /\ Len(requests) = 3 /\ AllFailed
  /\ Try(hist[1]).msg = "timeout"
  /\ Try(hist[2]).msg = "Server Error"
  /\ Try(hist[3]).msg = "Expecting value"
  /\ ret.v["error"] = JStr("Expecting value")

RECURSIVE Pow2(_)
Pow2(n) == IF n = 0 THEN 1 ELSE 2 * Pow2(n - 1)

\* C3: the sleeps of a call are delay, 2*delay, 4*delay, ..., one after each
\* failed attempt that is retried and none after the attempt that returns
\* (the final failure or the success); two failures then a success with
\* retries = 3 sleep delay then 2*delay and return the payload.
C3_BackoffSchedule ==
  (retries >= 1 /\ delay >= 0) =>
    LET retried == IF pc = "returned" THEN Len(hist) - 1 ELSE Len(hist) IN
    /\ Len(sleeps) = retried
    /\ \A k \in 1..Len(sleeps) : sleeps[k] = delay * Pow2(k - 1)
    /\ (pc = "returned" /\ retries = 3 /\ Len(hist) = 3 /\ ~Failed(hist[3])) =>
         /\ sleeps = <<delay, 2 * delay>>
         /\ ret = hist[3].body

\* fails twice then succeeds: sleeps of 2 and 4 seconds
C3_Witness ==
  /\ pc = "returned" /\ retries = 3 /\ delay = 2 /\ Len(hist) = 3
  /\ Failed(hist[1]) /\ Failed(hist[2])
  /\ hist[3].k = "resp" /\ hist[3].body = OkCity(ip)
  /\ ret = OkCity(ip)
  /\ sleeps = <<2, 4>>

\* the response carries a JSON object with an error field
BodyHasError(o) ==
  o.k = "resp" /\ o.body.t = "obj" /\ "error" \in DOMAIN o.body.v

\* the response carries a JSON object without an error field
BodyClean(o) ==
  o.k = "resp" /\ o.body.t = "obj" /\ "error" \notin DOMAIN o.body.v

Is2xx(o) == o.k = "resp" /\ o.status >= 200 /\ o.status <= 299

\* the status is one raise_for_status lets through
StatusAccepted(o) == o.k = "resp" /\ ~(o.status >= 400 /\ o.status <= 599)

\* what C4 says of a returned record, for a given notion good of the
\* attempt that counts as the success
C4_Body(good(_)) ==
  (pc = "returned" /\ retries >= 1) =>
    LET last == hist[Len(hist)] IN
    /\ BodyHasError(last) =>
         /\ Len(hist) = retries
         /\ ErrorShaped(ret)
         /\ ret.v["error"].t = "str"
         /\ ret # last.body
    /\ "error" \notin DOMAIN ret.v =>
         /\ good(last)
         /\ \A i \in 1..(Len(hist) - 1) : ~good(hist[i])
         /\ ret = last.body
         /\ Len(requests) = Len(hist)
    /\ "error" \in DOMAIN ret.v => ErrorShaped(ret)

\* C4 as stated: the record returned on success is the body of the first
\* attempt with a 2xx status and no error field
C4_Original == C4_Body(LAMBDA o : Is2xx(o) /\ BodyClean(o))

\* C4, amended: a body with an error field is a failed attempt whatever the
\* status; the record returned on success is the unchanged body of the
\* first attempt whose status is not 4xx/5xx and whose body has no error
\* field, and it is the last request of the call; a returned record has no
\* error field or exactly the fields ip and error.
C4_SuccessIsFirstCleanBody == C4_Body(LAMBDA o : StatusAccepted(o) /\ BodyClean(o))

\* a 200 body with an error field is retried, the next clean body returned
C4_Witness ==
  /\ pc = "returned" /\ retries = 3 /\ Len(hist) = 2
  /\ hist[1] = [k |-> "resp", status |-> 200, body |-> ErrString(ip)]
  /\ hist[2] = [k |-> "resp", status |-> 200, body |-> OkOrg(ip)]
  /\ ret = OkOrg(ip)
  /\ Len(requests) = 2

\* the last attempt of a call in which all failed passed the status check
\* and carried an error field that is an object
LastErrorIsObject ==
  /\ pc = "returned" /\ retries >= 1 /\ AllFailed
  /\ BodyHasError(hist[Len(hist)])
  /\ hist[Len(hist)].body.v["error"].t = "obj"

C10_Message ==
  LET ev == hist[Len(hist)].body.v["error"] IN
  ret.v["error"] =
    IF "message" \in DOMAIN ev.v THEN ev.v["message"] ELSE JStr("Unknown API error")

\* C10 as stated: whenever the last failed attempt received a body whose
\* error field is an object, the error of the record is the message
\* sub-field, or "Unknown API error"
C10_Original == LastErrorIsObject => C10_Message

\* C10, amended: the same, for a last attempt whose status is not 4xx/5xx
\* (for a 4xx/5xx status the error is the description of the HTTP error,
\* whatever the body holds).
C10_ObjectErrorMessage ==
  /\ (LastErrorIsObject /\ StatusAccepted(hist[Len(hist)])) => C10_Message
  /\ (LastErrorIsObject /\ ~StatusAccepted(hist[Len(hist)])) =>
       ret.v["error"] = JStr(HTTPErrorMsg(hist[Len(hist)].status))

\* an error object without a message sub-field on the last attempt
C10_Witness ==
  /\ LastErrorIsObject /\ Len(hist) = 2 /\ retries = 2
  /\ hist[1].k = "resp" /\ hist[1].status = 200 /\ hist[1].body = ErrObjMsg
  /\ hist[2].k = "resp" /\ hist[2].status = 200 /\ hist[2].body = ErrObjNoMsg
  /\ ret = ErrorRecord(ip, "Unknown API error")

\* ------------------------------------------------------------ input of main
Whitespace == {" ", "\n"}

\* line.strip() of a line holding at most one word: the word, or ""
strip(line) ==
  LET core == SelectSeq(line, LAMBDA c : c \notin Whitespace)
  IN  IF core = <<>> THEN "" ELSE core[1]

\* ipaddress.ip_address(ip) accepts the literal
is_valid_ip(s) == s \in ValidLiterals

LineKinds ==
  { <<"\n">>, <<" ", "1.1.1.1", "\n">>, <<"2.2.2.2", "\n">>, <<"999.1.1.1", "\n">> }

Files == UNION { [1..n -> LineKinds] : n \in 0..MaxLines }

SingleArgs == {"1.1.1.1", " 1.1.1.1", "999.1.1.1"}

OutputArgs ==
  { [output |-> o, format |-> f] : o \in {"", "out"}, f \in {"json", "csv"} }

ArgsOf(i, f, out) ==
  [ip |-> i, file |-> f, output |-> out.output, format |-> out.format]

\* State after parse_args: exactly one of -i and -f was given (an empty -i
\* value is falsy and args.file is then None, modelled as file = "").
Init ==
  /\ pc = "start"
  /\ \E out \in OutputArgs :
       \/ /\ \E s \in SingleArgs \cup {""} : args = ArgsOf(s, "", out)
          /\ fileLines = <<>>
       \/ /\ args = ArgsOf("", "ips.txt", out)
          /\ fileLines \in Files
  /\ readPos = 0 /\ ips = <<>> /\ idx = 0
  /\ results = <<>> /\ console = <<>> /\ disk = NoDisk /\ exitCode = -1
  /\ ip = "" /\ retries = 0 /\ delay = 0
  /\ attempt = 0 /\ ret = NoDict /\ calls = 0 /\ requests = <<>>
  /\ hist = <<>> /\ sleeps = <<>>

\* variant: sys.exit() without the exit code
FatalExitZero(msg) ==
  /\ console' = Append(console, msg)
  /\ exitCode' = 0
  /\ pc' = "exit"

\* variant: the diagnostic without sys.exit, the run goes on to the output
FatalContinue(msg) ==
  /\ console' = Append(console, msg)
  /\ exitCode' = exitCode
  /\ pc' = "save"

\* sys.exit(1) after the diagnostic msg
Fatal(msg) ==
  /\ console' = Append(console, msg)
  /\ exitCode' = 1
  /\ pc' = "exit"

\* main, single-IP branch: if args.ip
GatherSingle ==
  /\ pc = "start"
  /\ args.ip # ""
  /\ IF is_valid_ip(args.ip)
       THEN /\ ips' = <<args.ip>>
            /\ idx' = 1
            /\ pc' = "loop"
            /\ UNCHANGED <<console, exitCode>>
       ELSE /\ Fatal("Invalid IP address")
            /\ UNCHANGED <<ips, idx>>
  /\ UNCHANGED <<args, fileLines, readPos, results, disk, lookupVars>>

\* main, file branch: open(args.file, "r") succeeds (canOpen) or raises
OpenFile(canOpen) ==
  /\ pc = "start"
  /\ args.ip = ""
  /\ IF canOpen /\ args.file # ""
       THEN /\ pc' = "reading"
            /\ UNCHANGED <<console, exitCode>>
       ELSE Fatal("Failed to read file")
  /\ UNCHANGED <<args, fileLines, readPos, ips, idx, results, disk, lookupVars>>

\* main, file branch: one step of "for line in f"; the read succeeds
\* (canRead) and yields the next line or the end of the file, or raises
ReadLine(canRead) ==
  /\ pc = "reading"
  /\ IF ~canRead
       THEN /\ Fatal("Failed to read file")
            /\ UNCHANGED <<readPos, ips, idx>>
       ELSE IF readPos < Len(fileLines)
         THEN LET s == strip(fileLines[readPos + 1]) IN
              /\ readPos' = readPos + 1
              /\ ips' = IF s # "" /\ is_valid_ip(s) THEN Append(ips, s) ELSE ips
              /\ console' = IF s # "" /\ ~is_valid_ip(s)
                              THEN Append(console, "Skipping invalid IP")
                              ELSE console
              /\ UNCHANGED <<pc, idx, exitCode>>
         ELSE /\ pc' = "loop"
              /\ idx' = 1
              /\ UNCHANGED <<readPos, ips, console, exitCode>>
  /\ UNCHANGED <<args, fileLines, results, disk, lookupVars>>

\* main: head of "for idx, ip in enumerate(ips, 1)": the next call of
\* get_ip_info(ip, token, verbose=...), or the end of the loop
Loop ==
  /\ pc = "loop"
  /\ IF idx <= Len(ips)
       THEN Enter(ips[idx], DefaultRetries, DefaultDelay)
       ELSE /\ pc' = "save"
            /\ UNCHANGED lookupVars
  /\ UNCHANGED mainVars

\* variant: only successful lookups are appended
CollectSkipErrors ==
  /\ pc = "returned"
  /\ results' = IF "error" \in DOMAIN ret.v THEN results ELSE Append(results, ret)
  /\ idx' = idx + 1
  /\ pc' = "loop"
  /\ UNCHANGED <<args, fileLines, readPos, ips, console, disk, exitCode, lookupVars>>

\* main: results.append(data)
Collect ==
  /\ pc = "returned"
  /\ results' = Append(results, ret)
  /\ idx' = idx + 1
  /\ pc' = "loop"
  /\ UNCHANGED <<args, fileLines, readPos, ips, console, disk, exitCode, lookupVars>>

\* ----------------------------------------------------------- output writers
\* code points of the keys, for the order sorted() puts strings in
KeyCode(k) ==
  CASE k = "city"  -> <<99, 105, 116, 121>>
    [] k = "error" -> <<101, 114, 114, 111, 114>>
    [] k = "ip"    -> <<105, 112>>
    [] k = "org"   -> <<111, 114, 103>>

RECURSIVE LexLess(_, _)
LexLess(a, b) ==
  IF b = <<>> THEN FALSE
  ELSE IF a = <<>> THEN TRUE
  ELSE IF Head(a) # Head(b) THEN Head(a) < Head(b)
  ELSE LexLess(Tail(a), Tail(b))

KeyLess(j, k) == LexLess(KeyCode(j), KeyCode(k))

\* variant: list(keys) in reverse order, not sorted
RECURSIVE unsorted(_)
unsorted(S) ==
  IF S = {} THEN <<>>
  ELSE LET m == CHOOSE k \in S : \A j \in S \ {k} : KeyLess(j, k)
       IN  <<m>> \o unsorted(S \ {m})

\* sorted(keys)
RECURSIVE sorted(_)
sorted(S) ==
  IF S = {} THEN <<>>
  ELSE LET m == CHOOSE k \in S : \A j \in S \ {k} : KeyLess(k, j)
       IN  <<m>> \o sorted(S \ {m})

\* keys = set(); for r in results: keys.update(r.keys())
AllKeys(rs) == UNION { DOMAIN rs[i].v : i \in 1..Len(rs) }

\* what the csv writer writes for a value
CsvCell(x) == IF x.t = "null" THEN "" ELSE Str(x)

\* csv.DictWriter(f, fieldnames=keys).writerow(r), restval ""
CsvRow(r, keys) ==
  [j \in 1..Len(keys) |->
     IF keys[j] \in DOMAIN r.v THEN CsvCell(r.v[keys[j]]) ELSE ""]

\* rows of the file save_csv writes for a non-empty results
CsvRows(rs) ==
  LET keys == sorted(AllKeys(rs))
  IN  <<keys>> \o [i \in 1..Len(rs) |-> CsvRow(rs[i], keys)]

\* main: the output block, with save_json and save_csv; open(filename, "w")
\* succeeds (canOpen) or raises
Save(canOpen) ==
  /\ pc = "save"
  /\ IF args.output = ""
       THEN UNCHANGED <<console, disk>>
       ELSE IF args.format = "json"
         THEN IF canOpen
                THEN /\ disk' = [disk EXCEPT !.opened = TRUE, !.json = results]
                     /\ console' = Append(console, "Results saved")
                ELSE /\ console' = Append(console, "Failed to save output file")
                     /\ UNCHANGED disk
         ELSE IF results = <<>>
           THEN /\ console' = console \o <<"No results to save.", "Results saved">>
                /\ UNCHANGED disk
           ELSE IF canOpen
                  THEN /\ disk' = [disk EXCEPT !.opened = TRUE, !.csv = CsvRows(results)]
                       /\ console' = Append(console, "Results saved")
                  ELSE /\ console' = Append(console, "Failed to save output file")
                       /\ UNCHANGED disk
  /\ exitCode' = 0
  /\ pc' = "done"
  /\ UNCHANGED <<args, fileLines, readPos, ips, idx, results, lookupVars>>

Next ==
  \/ GatherSingle
  \/ \E b \in BOOLEAN : OpenFile(b)
  \/ \E b \in BOOLEAN : ReadLine(b)
  \/ Loop
  \/ \E o \in BatchOutcomes(ip) : Attempt(o)
  \/ Collect
  \/ \E b \in BOOLEAN : Save(b)

Spec == Init /\ [][Next]_vars

\* ------------------------------------------------------ properties of main
InConsole(msg) == \E i \in 1..Len(console) : console[i] = msg

\* a fatal configuration error was reported
FatalReported == InConsole("Invalid IP address") \/ InConsole("Failed to read file")

\* the line is one valid IP literal surrounded by whitespace only
IsValidLine(line) ==
  \E p \in 1..Len(line) :
    /\ line[p] \in ValidLiterals
    /\ \A q \in (1..Len(line)) \ {p} : line[q] \in Whitespace

LiteralOf(line) == line[CHOOSE p \in 1..Len(line) : line[p] \in ValidLiterals]

\* the syntactically valid input IPs, in input order
ValidInput ==
  IF args.ip # ""
    THEN IF args.ip \in ValidLiterals THEN <<args.ip>> ELSE <<>>
    ELSE LET good == SelectSeq(fileLines, IsValidLine)
         IN  [i \in 1..Len(good) |-> LiteralOf(good[i])]

C5_Inv ==
  /\ pc \in {"loop", "attempt", "returned", "save", "done"} => ips = ValidInput
  /\ Len(results) <= Len(ips)
  /\ pc \in {"save", "done"} => Len(results) = Len(ips)
  /\ \A i \in 1..Len(results) :
       /\ results[i].v["ip"] = JStr(ips[i])
       /\ \E j \in 1..Len(requests) : requests[j].call = i
  /\ \A j \in 1..Len(requests) :
       /\ requests[j].call \in 1..(Len(results) + 1)
       /\ requests[j].call <= Len(ips)
       /\ requests[j].ip = ips[requests[j].call]
       /\ \A k \in 1..Len(requests) :
            j < k => requests[j].call <= requests[k].call

C5_Step ==
  results' # results =>
    /\ results' = Append(results, ret)
    /\ calls = Len(results) + 1
    /\ ip = ips[calls]

\* C5: the results hold one record per valid input IP, in input order,
\* failed lookups included: the i-th record is what the i-th call returned,
\* the i-th call looked up the i-th valid IP, and the requests of one call
\* all come before the requests of the next.
C5_OneRecordPerValidIp == []C5_Inv /\ [][C5_Step]_vars

\* a failed lookup followed by a successful one, both in the results
C5_Witness ==
  /\ pc = "done" /\ Len(fileLines) = 2 /\ Len(results) = 2
  /\ results[1] = ErrorRecord("1.1.1.1", "Server Error")
  /\ results[2] = OkCity("2.2.2.2")

C7_FatalBeforeAnything ==
  FatalReported =>
    /\ pc = "exit"
    /\ requests = <<>> /\ calls = 0 /\ results = <<>>
    /\ ~disk.opened /\ disk.json = <<>> /\ disk.csv = <<>>

\* the read fails after a valid line was collected
C7_Witness ==
  /\ exitCode = 1 /\ InConsole("Failed to read file")
  /\ readPos >= 1 /\ Len(ips) >= 1

\* the lexicographic order of the four keys
Rank == [city |-> 1, error |-> 2, ip |-> 3, org |-> 4]

SpecExample == <<OkCity("1.1.1.1"), ErrorRecord("2.2.2.2", "timeout")>>

\* C8: the CSV written for a non-empty results has as first row the sorted
\* union of the keys of all records, each once, then one row per record in
\* order, each cell the record's value for the column or empty.
C8_CsvLayout ==
  /\ (pc = "done" /\ args.output # "" /\ args.format = "csv" /\ results # <<>>
        /\ InConsole("Results saved")) => disk.opened
  /\ (pc = "done" /\ disk.opened /\ args.format = "csv") =>
       LET rows == disk.csv
           h == rows[1]
       IN  /\ results # <<>>
           /\ Len(rows) = Len(results) + 1
           /\ {h[j] : j \in 1..Len(h)} = UNION {DOMAIN results[i].v : i \in 1..Len(results)}
           /\ \A j, k \in 1..Len(h) : j < k => Rank[h[j]] < Rank[h[k]]
           /\ \A i \in 1..Len(results) :
                /\ Len(rows[i + 1]) = Len(h)
                /\ \A j \in 1..Len(h) :
                     rows[i + 1][j] = IF h[j] \in DOMAIN results[i].v
                                        THEN results[i].v[h[j]].v
                                        ELSE ""
           /\ results = SpecExample =>
                rows = << <<"city", "error", "ip">>,
                          <<"X", "", "1.1.1.1">>,
                          <<"", "timeout", "2.2.2.2">> >>

\* the example: one success with a city, one timeout
C8_Witness ==
  /\ pc = "done" /\ disk.opened /\ args.format = "csv"
  /\ results = SpecExample
  /\ disk.csv[1] = <<"city", "error", "ip">>

\* C9: with an empty results and the CSV format the output path is not
\* opened and the writer tells its caller that nothing was saved, so that
\* main does not report the results as saved.
C9_NothingToSave ==
  (pc = "done" /\ args.output # "" /\ args.format = "csv" /\ results = <<>>) =>
    /\ ~disk.opened /\ disk.csv = <<>>
    /\ InConsole("No results to save.")
    /\ ~InConsole("Results saved")

====
